---- MODULE Spec2Model ----
(***************************************************************************)
(* A model of pygimli/frameworks/modelling.py: the region-property cache   *)
(* of Modelling, its lazy application to the region manager, the layered   *)
(* Block1DModelling set-up and the multi-sounding bookkeeping of           *)
(* LCModelling.                                                            *)
(*                                                                         *)
(* The native engine (pg.ModellingBase, RegionManager, BlockMatrix, the    *)
(* per-sounding forward operators) is not part of the file.  Its objects   *)
(* appear here only as the containers the Python code reads and writes:    *)
(* a region manager is a table of per-region settings whose setters store  *)
(* their argument, a block matrix is a list of matrices and a list of      *)
(* entries, a forward operator is named by the order of its creation (its  *)
(* own settings, such as its multi-thread count, are not kept).            *)
(***************************************************************************)
EXTENDS Integers, Sequences, FiniteSets, TLC

(***************************************************************************)
(* Bounds of the model.                                                    *)
(***************************************************************************)
MaxCalls == 2       \* state-changing calls made on one Modelling object
MaxLog == 3         \* cache calls recorded in the history
MaxLayers == 3      \* nLayers arguments are 0 .. MaxLayers
MaxSoundings == 2   \* len(dataVals) is 0 .. MaxSoundings
MaxData == 2        \* len(dataVals[i]) is 0 .. MaxData
MaxInits == 2       \* parametrisations made on one LCModelling object
MaxPar == 6         \* len(par) is 0 .. MaxPar

\* the region identifiers in use
Regions == {0, 1}

(***************************************************************************)
(* Python's optional keyword arguments: None, or a value.                  *)
(***************************************************************************)
None == << >>
Some(v) == << v >>
IsNone(x) == Len(x) = 0
Get(x) == x[1]

Min(S) == CHOOSE x \in S : \A y \in S : x <= y

VARIABLES
    cls,                  \* the class of the object: Modelling or Block1DModelling
    nBlocks,              \* Block1DModelling._nBlocks
    regionProperties,     \* Modelling._regionProperties: region -> record
    rm,                   \* the region manager's settings, one record per region
    fop,                  \* Modelling.fop
    data,                 \* Modelling.data
    transModel,           \* Modelling._transModel
    mesh,                 \* the mesh held by the object (or by its fop)
    multiThreadJacobian,  \* the count given to setMultiThreadJacobian
    nCalls,               \* state-changing calls made so far
    lastOp,               \* the call that produced this state and how it ended
    log,                  \* history of the cache calls (observer's variable)
    fops1D,               \* LCModelling._fops1D: the per-sounding operators
    fops1DAttr,           \* LCModelling.fops1D, the attribute initJacobian sets
    nSoundings,           \* LCModelling._nSoundings
    parPerSounding,       \* LCModelling._parPerSounding
    jac,                  \* LCModelling._jac: None or a block matrix
    jacobian,             \* the matrix handed to setJacobian
    nFops,                \* forward operators created from the template so far
    calls,                \* the response/createJacobian calls the last call made on operators
    ret,                  \* what the last call returned, when it returned a vector
    dataVals,             \* the argument of the last initJacobian
    nInits                \* parametrisations made so far

modVars == << cls, nBlocks, regionProperties, rm, fop, data, transModel, mesh,
              multiThreadJacobian, nCalls >>

lcVars == << fops1D, fops1DAttr, nSoundings, parPerSounding, jac, jacobian,
             nFops, calls, ret, dataVals, nInits >>

vars == << cls, nBlocks, regionProperties, rm, fop, data, transModel, mesh,
           multiThreadJacobian, nCalls, lastOp, log, fops1D, fops1DAttr,
           nSoundings, parPerSounding, jac, jacobian, nFops, calls, ret,
           dataVals, nInits >>

(***************************************************************************)
(* Arguments the calls are made with.                                      *)
(***************************************************************************)
StartModelArgs == {3, 7}
LimitsArgs == {<< 0, 0 >>, << 2, 5 >>, << 0, 4 >>}
TransArgs == {"log", "lin"}
CTypeArgs == {2}
ZWeightsArgs == {5}
ModelControlArgs == {6}

\* setRegionProperties(region) with every keyword left at its default None
NoArgs == [startModel |-> None, limits |-> None, trans |-> None,
           cType |-> None, zWeights |-> None, modelControl |-> None]

\* one keyword given
OneArg ==
    {[NoArgs EXCEPT !.startModel = Some(v)] : v \in StartModelArgs}
    \cup {[NoArgs EXCEPT !.limits = Some(v)] : v \in LimitsArgs}
    \cup {[NoArgs EXCEPT !.trans = Some(v)] : v \in TransArgs}
    \cup {[NoArgs EXCEPT !.cType = Some(v)] : v \in CTypeArgs}
    \cup {[NoArgs EXCEPT !.zWeights = Some(v)] : v \in ZWeightsArgs}
    \cup {[NoArgs EXCEPT !.modelControl = Some(v)] : v \in ModelControlArgs}

\* every keyword given
AllArgs == [startModel |-> Some(7), limits |-> Some(<< 2, 5 >>),
            trans |-> Some("lin"), cType |-> Some(2),
            zWeights |-> Some(5), modelControl |-> Some(6)]

KeywordArgs == {NoArgs, AllArgs} \cup OneArg

Fops == {"fopA"}
DataContainers == {"dataA"}
TransModels == {"RTransLog", "RTransLin"}

(***************************************************************************)
(* The record setRegionProperties creates for a region it has not seen.    *)
(***************************************************************************)
DefaultProperties == [startModel |-> 0, modelControl |-> 1, zWeights |-> 1,
                      cType |-> 1, limits |-> << 0, 0 >>, trans |-> "Log"]

(***************************************************************************)
(* The settings of a region the region manager has just created.           *)
(***************************************************************************)
FreshRegion == [startModel |-> 0, trans |-> "", cType |-> 0, zWeight |-> 1,
                modelControl |-> 1, lowerBound |-> 0, upperBound |-> 0]

FreshRM == [r \in Regions |-> FreshRegion]

Op(name, raised, arg) == [op |-> name, raised |-> raised, arg |-> arg]

(***************************************************************************)
(* Modelling.setRegionProperties: the six keyword arguments, each stored   *)
(* when it is not None.                                                    *)
(***************************************************************************)
SetFields(p0, region, a) ==
    LET p1 == IF ~IsNone(a.startModel)
              THEN [p0 EXCEPT ![region].startModel = Get(a.startModel)] ELSE p0
        p2 == IF ~IsNone(a.limits)
              THEN [p1 EXCEPT ![region].limits = Get(a.limits)] ELSE p1
        p3 == IF ~IsNone(a.trans)
              THEN [p2 EXCEPT ![region].trans = Get(a.trans)] ELSE p2
        p4 == IF ~IsNone(a.cType)
              THEN [p3 EXCEPT ![region].cType = Get(a.cType)] ELSE p3
        p5 == IF ~IsNone(a.zWeights)
              THEN [p4 EXCEPT ![region].zWeights = Get(a.zWeights)] ELSE p4
        p6 == IF ~IsNone(a.modelControl)
              THEN [p5 EXCEPT ![region].modelControl = Get(a.modelControl)] ELSE p5
    IN  p6

\* _regionProperties[region] = {the defaults}
WithDefaults(props, region) ==
    [r \in DOMAIN props \cup {region} |->
        IF r = region THEN DefaultProperties ELSE props[r]]

\* SetProps without the test "region not in self._regionProperties"
SetPropsAlwaysNew(props, region, a) ==
    SetFields(WithDefaults(props, region), region, a)

(***************************************************************************)
(* Modelling.setRegionProperties: the new value of _regionProperties.      *)
(***************************************************************************)
SetProps(props, region, a) ==
    SetFields(IF region \notin DOMAIN props THEN WithDefaults(props, region)
              ELSE props,
              region, a)

\* BoundGiven with >= in place of >
BoundGivenOrZero(limit) == limit >= 0

(***************************************************************************)
(* Modelling._applyRegionProperties: the test that guards setLowerBound    *)
(* and setUpperBound.                                                      *)
(***************************************************************************)
BoundGiven(limit) == limit > 0

(***************************************************************************)
(* Modelling._applyRegionProperties: one turn of the loop, for region rID. *)
(***************************************************************************)
ApplyOne(RM, rID, vals) ==
    LET s1 == [RM EXCEPT ![rID].startModel = vals.startModel]
        s2 == [s1 EXCEPT ![rID].trans = vals.trans]
        s3 == IF "cType" \in DOMAIN vals
              THEN [s2 EXCEPT ![rID].cType = vals.cType] ELSE s2
        s4 == IF "zWeights" \in DOMAIN vals
              THEN [s3 EXCEPT ![rID].zWeight = vals.zWeights] ELSE s3
        s5 == IF "modelControl" \in DOMAIN vals
              THEN [s4 EXCEPT ![rID].modelControl = vals.modelControl] ELSE s4
        s6 == IF BoundGiven(vals.limits[1])
              THEN [s5 EXCEPT ![rID].lowerBound = vals.limits[1]] ELSE s5
        s7 == IF BoundGiven(vals.limits[2])
              THEN [s6 EXCEPT ![rID].upperBound = vals.limits[2]] ELSE s6
    IN  s7

(***************************************************************************)
(* The loop over _regionProperties.items().  Each turn writes the settings *)
(* of its own region only, so the regions are taken in ascending order.    *)
(***************************************************************************)
RECURSIVE ApplyLoop(_, _, _)
ApplyLoop(RM, props, todo) ==
    IF todo = {} THEN RM
    ELSE LET rID == Min(todo)
         IN  ApplyLoop(ApplyOne(RM, rID, props[rID]), props, todo \ {rID})

ApplyRegionProperties(RM, props) == ApplyLoop(RM, props, DOMAIN props)

(***************************************************************************)
(* Modelling.setMesh: the region manager afterwards.  With a forward       *)
(* operator the object takes over the operator's region manager, without   *)
(* one the native base class hands the mesh to its own; in both cases the  *)
(* manager either keeps its regions or holds freshly created ones.         *)
(***************************************************************************)
RMAfterSetMesh(RM, ignoreRegionManager) ==
    IF ignoreRegionManager THEN {RM} ELSE {RM, FreshRM}

(***************************************************************************)
(* Block1DModelling.setLayers: the loop of setRegionProperties(i,          *)
(* trans='log') for i in range(nBlocks + 1).                               *)
(***************************************************************************)
RECURSIVE SetLayerProps(_, _, _)
SetLayerProps(props, i, n) ==
    IF i > n THEN props
    ELSE SetLayerProps(SetProps(props, i, [NoArgs EXCEPT !.trans = Some("log")]),
                       i + 1, n)

\* Block1DModelling._withMultiThread, set once by __init__
withMultiThread == TRUE

\* Block1DModelling(nBlocks=...)
NBlocksArgs == {0, 1}

(***************************************************************************)
(* The state after construction.                                           *)
(***************************************************************************)
InitModelling ==
    /\ cls \in {"Modelling", "Block1DModelling", "LCModelling"}
    /\ nBlocks \in (IF cls = "Block1DModelling" THEN NBlocksArgs ELSE {0})
    /\ regionProperties = << >>
    /\ rm = FreshRM
    /\ fop = None
    /\ data = None
    /\ transModel = "RTransLog"
    /\ mesh = None
    /\ multiThreadJacobian = 0
    /\ nCalls = 0
    /\ lastOp = Op("__init__", FALSE, 0)
    /\ log = << >>

InitLC ==
    /\ fops1D = << >>
    /\ fops1DAttr = None
    /\ nSoundings = 0
    /\ parPerSounding = 0
    /\ jac = None
    /\ jacobian = None
    /\ nFops = 0
    /\ calls = << >>
    /\ ret = None
    /\ dataVals = << >>
    /\ nInits = 0

(***************************************************************************)
(* pg.createMesh1DBlock(nLayers, nBlocks), and the meshes a caller passes  *)
(* to setMesh.                                                             *)
(***************************************************************************)
createMesh1DBlock(nLayers, nProperties) ==
    [kind |-> "1DBlock", x |-> nLayers, y |-> nProperties]

\* pg.createMesh2D(range(nx), range(ny))
createMesh2D(nx, ny) == [kind |-> "2D", x |-> nx, y |-> ny]

Meshes == {createMesh1DBlock(2, 1)}

(***************************************************************************)
(* Modelling.setForwardOperator                                            *)
(***************************************************************************)
setForwardOperator(f) ==
    /\ fop' = Some(f)
    /\ nCalls' = nCalls + 1
    /\ lastOp' = Op("setForwardOperator", FALSE, 0)
    /\ UNCHANGED << cls, nBlocks, regionProperties, rm, data, transModel, mesh,
                    multiThreadJacobian >>

(***************************************************************************)
(* Modelling.transModel (setter)                                           *)
(***************************************************************************)
setTransModel(tm) ==
    /\ transModel' = tm
    /\ nCalls' = nCalls + 1
    /\ lastOp' = Op("transModel.setter", FALSE, 0)
    /\ UNCHANGED << cls, nBlocks, regionProperties, rm, fop, data, mesh,
                    multiThreadJacobian >>

(***************************************************************************)
(* Modelling.setDataContainer                                              *)
(***************************************************************************)
setDataContainer(d) ==
    /\ data' = IF ~IsNone(fop) THEN data ELSE Some(d)
    /\ nCalls' = nCalls + 1
    /\ lastOp' = Op("setDataContainer", FALSE, 0)
    /\ UNCHANGED << cls, nBlocks, regionProperties, rm, fop, transModel, mesh,
                    multiThreadJacobian >>

(***************************************************************************)
(* Modelling.setMesh                                                       *)
(***************************************************************************)
setMesh(m, ignoreRegionManager) ==
    /\ mesh' = Some(m)
    /\ rm' \in RMAfterSetMesh(rm, ignoreRegionManager)
    /\ nCalls' = nCalls + 1
    /\ lastOp' = Op("setMesh", FALSE, 0)
    /\ UNCHANGED << cls, nBlocks, regionProperties, fop, data, transModel,
                    multiThreadJacobian >>

(***************************************************************************)
(* Modelling.clearRegionProperties                                         *)
(***************************************************************************)
clearRegionProperties ==
    /\ regionProperties' = << >>
    /\ nCalls' = nCalls + 1
    /\ lastOp' = Op("clearRegionProperties", FALSE, 0)
    /\ UNCHANGED << cls, nBlocks, rm, fop, data, transModel, mesh,
                    multiThreadJacobian >>

\* setRegionProperties that also writes the record to the region manager
setRegionPropertiesEager(region, a) ==
    /\ regionProperties' = SetProps(regionProperties, region, a)
    /\ rm' = ApplyOne(rm, region, regionProperties'[region])
    /\ nCalls' = nCalls + 1
    /\ lastOp' = Op("setRegionProperties", FALSE, region)
    /\ UNCHANGED << cls, nBlocks, fop, data, transModel, mesh,
                    multiThreadJacobian >>

(***************************************************************************)
(* Modelling.setRegionProperties                                           *)
(***************************************************************************)
setRegionProperties(region, a) ==
    /\ regionProperties' = SetProps(regionProperties, region, a)
    /\ nCalls' = nCalls + 1
    /\ lastOp' = Op("setRegionProperties", FALSE, region)
    /\ UNCHANGED << cls, nBlocks, rm, fop, data, transModel, mesh,
                    multiThreadJacobian >>

(***************************************************************************)
(* Modelling._applyRegionProperties                                        *)
(***************************************************************************)
applyRegionProperties ==
    /\ rm' = ApplyRegionProperties(rm, regionProperties)
    /\ lastOp' = Op("_applyRegionProperties", FALSE, 0)
    /\ UNCHANGED << cls, nBlocks, regionProperties, fop, data, transModel, mesh,
                    multiThreadJacobian, nCalls >>

(***************************************************************************)
(* Modelling.regionManager: the native manager is fetched, the cache is    *)
(* applied to it, and it is fetched again and returned.                    *)
(***************************************************************************)
regionManager ==
    /\ rm' = ApplyRegionProperties(rm, regionProperties)
    /\ lastOp' = Op("regionManager", FALSE, 0)
    /\ UNCHANGED << cls, nBlocks, regionProperties, fop, data, transModel, mesh,
                    multiThreadJacobian, nCalls >>

(***************************************************************************)
(* Modelling.transModel (getter): _applyRegionProperties, then             *)
(* regionManager() for haveLocalTrans and, when the manager has local      *)
(* transformations, regionManager() once more for its transModel.          *)
(***************************************************************************)
getTransModel(haveLocalTrans) ==
    /\ LET r1 == ApplyRegionProperties(rm, regionProperties)
           r2 == ApplyRegionProperties(r1, regionProperties)
           r3 == IF haveLocalTrans
                 THEN ApplyRegionProperties(r2, regionProperties) ELSE r2
       IN  rm' = r3
    /\ lastOp' = Op("transModel.getter", FALSE, 0)
    /\ UNCHANGED << cls, nBlocks, regionProperties, fop, data, transModel, mesh,
                    multiThreadJacobian, nCalls >>

(***************************************************************************)
(* The methods of Modelling that only raise.  drawModel and drawData are   *)
(* overridden in Block1DModelling, so the base versions run on a plain     *)
(* Modelling object.                                                       *)
(***************************************************************************)
Raise(name) ==
    /\ lastOp' = Op(name, TRUE, 0)
    /\ UNCHANGED << cls, nBlocks, regionProperties, rm, fop, data, transModel,
                    mesh, multiThreadJacobian, nCalls >>

createStartModel == cls # "LCModelling" /\ Raise("createStartModel")

\* estimateError that returns the data in place of raising
estimateErrorReturns ==
    /\ lastOp' = Op("estimateError", FALSE, 0)
    /\ UNCHANGED << cls, nBlocks, regionProperties, rm, fop, data, transModel,
                    mesh, multiThreadJacobian, nCalls >>

estimateError == Raise("estimateError")

drawModel == cls = "Modelling" /\ Raise("drawModel")

drawData == cls = "Modelling" /\ Raise("drawData")

(***************************************************************************)
(* Block1DModelling.drawModel                                              *)
(***************************************************************************)
Block1DDrawModel ==
    /\ cls = "Block1DModelling"
    /\ lastOp' = Op("Block1DModelling.drawModel", FALSE, 0)
    /\ UNCHANGED << cls, nBlocks, regionProperties, rm, fop, data, transModel,
                    mesh, multiThreadJacobian, nCalls >>

\* TooFewLayers with 1 in place of 2
TooFewLayersBelowOne(nLayers) == nLayers < 1

\* Block1DModelling.setLayers: the test that raises
TooFewLayers(nLayers) == nLayers < 2

(***************************************************************************)
(* Block1DModelling.setLayers                                              *)
(***************************************************************************)
setLayers(nLayers) ==
    /\ cls = "Block1DModelling"
    /\ IF TooFewLayers(nLayers)
       THEN /\ lastOp' = Op("setLayers", TRUE, nLayers)
            /\ UNCHANGED << regionProperties, rm, mesh, multiThreadJacobian,
                            nCalls >>
       ELSE /\ mesh' = Some(createMesh1DBlock(nLayers, nBlocks))
            /\ regionProperties' = SetLayerProps(regionProperties, 0, nBlocks)
            /\ multiThreadJacobian' =
                   IF withMultiThread THEN 2 * nLayers - 1
                   ELSE multiThreadJacobian
            /\ \E r1 \in RMAfterSetMesh(rm, FALSE) :
                   rm' = ApplyRegionProperties(r1, regionProperties')
            /\ nCalls' = nCalls + 1
            /\ lastOp' = Op("setLayers", FALSE, nLayers)
    /\ UNCHANGED << cls, nBlocks, fop, data, transModel >>

(***************************************************************************)
(* LCModelling.  A forward operator created from the template is named by  *)
(* the order of its creation; its Jacobian matrix carries the same name.   *)
(* A block matrix is its list of matrices and its list of entries; entry   *)
(* [mat, row, col] places matrix number mat (counted from 0, as addMatrix  *)
(* returns it) at the row and column offsets.                              *)
(***************************************************************************)
EmptyBlockMatrix == [matrices |-> << >>, entries |-> << >>]

\* dataVals: one sequence of data values per sounding
RECURSIVE SeqsOf(_, _)
SeqsOf(S, n) ==
    IF n = 0 THEN {<< >>}
    ELSE {Append(q, x) : q \in SeqsOf(S, n - 1), x \in S}

Soundings == {[k \in 1 .. m |-> 0] : m \in 0 .. MaxData}

DataValsArgs == UNION {SeqsOf(Soundings, n) : n \in 0 .. MaxSoundings}

\* par: a model vector whose elements tell their position
ParArgs == {[k \in 1 .. m |-> k] : m \in 0 .. MaxPar}

(***************************************************************************)
(* LCModelling.createParametrization: nCols                                *)
(***************************************************************************)
NCols(nLayers, nPar) == (nPar + 1) * nLayers - 1

(***************************************************************************)
(* LCModelling.createParametrization                                       *)
(***************************************************************************)
Parametrize(n, nLayers, nPar) ==
    /\ parPerSounding' = NCols(nLayers, nPar)
    /\ nSoundings' = n
    /\ mesh' = Some(createMesh2D(NCols(nLayers, nPar) + 1, n + 1))
    /\ rm' \in RMAfterSetMesh(rm, FALSE)

createParametrization(n, nLayers, nPar) ==
    /\ cls = "LCModelling"
    /\ nInits < MaxInits
    /\ Parametrize(n, nLayers, nPar)
    /\ nInits' = nInits + 1
    /\ calls' = << >>
    /\ ret' = None
    /\ lastOp' = Op("createParametrization", FALSE, nLayers)
    /\ UNCHANGED << cls, nBlocks, regionProperties, fop, data, transModel,
                    multiThreadJacobian, nCalls, log, fops1D, fops1DAttr, jac,
                    jacobian, nFops, dataVals >>

\* InitJacobianStep that takes the sounding's index for its row offset
InitJacobianStepRowIndex(st, i, dv, P) ==
    LET f == st.nFops + 1
        nID == Len(st.jac.matrices)
    IN  [fops |-> Append(st.fops, f),
         nFops |-> f,
         jac |-> [matrices |-> Append(st.jac.matrices, f),
                  entries |-> Append(st.jac.entries,
                                     [mat |-> nID, row |-> i, col |-> P * i])],
         nData |-> st.nData + Len(dv[i + 1])]

(***************************************************************************)
(* LCModelling.initJacobian: the loop over the soundings.  st holds the    *)
(* operator list, the number of operators created, the block matrix and    *)
(* nData.                                                                  *)
(***************************************************************************)
InitJacobianStep(st, i, dv, P) ==
    LET f == st.nFops + 1
        nID == Len(st.jac.matrices)
    IN  [fops |-> Append(st.fops, f),
         nFops |-> f,
         jac |-> [matrices |-> Append(st.jac.matrices, f),
                  entries |-> Append(st.jac.entries,
                                     [mat |-> nID, row |-> st.nData, col |-> P * i])],
         nData |-> st.nData + Len(dv[i + 1])]

RECURSIVE InitJacobianLoop(_, _, _, _)
InitJacobianLoop(st, i, dv, P) ==
    IF i >= Len(dv) THEN st
    ELSE InitJacobianLoop(InitJacobianStep(st, i, dv, P), i + 1, dv, P)

(***************************************************************************)
(* LCModelling.initJacobian                                                *)
(***************************************************************************)
initJacobian(dv, nLayers) ==
    /\ cls = "LCModelling"
    /\ nInits < MaxInits
    /\ Parametrize(Len(dv), nLayers, 1)
    /\ LET st == InitJacobianLoop(
                     [fops |-> fops1D, nFops |-> nFops,
                      jac |-> EmptyBlockMatrix, nData |-> 0],
                     0, dv, parPerSounding')
       IN  /\ fops1D' = st.fops
           /\ nFops' = st.nFops
           /\ jac' = Some(st.jac)
    /\ fops1DAttr' = Some(<< >>)
    /\ jacobian' = Some("_jac")
    /\ dataVals' = dv
    /\ nInits' = nInits + 1
    /\ calls' = << >>
    /\ ret' = None
    /\ lastOp' = Op("initJacobian", FALSE, nLayers)
    /\ UNCHANGED << cls, nBlocks, regionProperties, fop, data, transModel,
                    multiThreadJacobian, nCalls, log >>

(***************************************************************************)
(* np.asarray(par).reshape(n, P): row i (counted from 0) of the result.    *)
(***************************************************************************)
ReshapeFits(par, n, P) == Len(par) = n * P

\* ReshapeRow in column-major order
ReshapeRowColumnMajor(par, i, P) == [j \in 1 .. P |-> par[(j - 1) * nSoundings + i + 1]]

ReshapeRow(par, i, P) == [j \in 1 .. P |-> par[i * P + j]]

(***************************************************************************)
(* The response of operator f to the model mod: two data values that       *)
(* depend on the operator and on the model.                                *)
(***************************************************************************)
FopResponse(f, mod) ==
    << [fop |-> f, mod |-> mod, datum |-> 1],
       [fop |-> f, mod |-> mod, datum |-> 2] >>

(***************************************************************************)
(* LCModelling.response and createJacobian: the loop over the soundings.   *)
(* acc holds the calls made, the response so far and whether the list of   *)
(* operators ran out.                                                      *)
(***************************************************************************)
RECURSIVE SoundingLoop(_, _, _)
SoundingLoop(acc, i, par) ==
    IF i >= nSoundings THEN acc
    ELSE IF i + 1 > Len(fops1D) THEN [acc EXCEPT !.raised = TRUE]
    ELSE LET f == fops1D[i + 1]
             mod == ReshapeRow(par, i, parPerSounding)
         IN  SoundingLoop(
                 [calls |-> Append(acc.calls, [fop |-> f, mod |-> mod]),
                  resp |-> acc.resp \o FopResponse(f, mod),
                  raised |-> FALSE],
                 i + 1, par)

(***************************************************************************)
(* LCModelling.response                                                    *)
(***************************************************************************)
response(par) ==
    /\ cls = "LCModelling"
    /\ IF ~ReshapeFits(par, nSoundings, parPerSounding)
       THEN /\ calls' = << >>
            /\ ret' = None
            /\ lastOp' = Op("response", TRUE, Len(par))
       ELSE LET acc == SoundingLoop([calls |-> << >>, resp |-> << >>,
                                     raised |-> FALSE], 0, par)
            IN  /\ calls' = acc.calls
                /\ ret' = IF acc.raised THEN None ELSE Some(acc.resp)
                /\ lastOp' = Op("response", acc.raised, Len(par))
    /\ UNCHANGED << cls, nBlocks, regionProperties, rm, fop, data, transModel,
                    mesh, multiThreadJacobian, nCalls, log, fops1D, fops1DAttr,
                    nSoundings, parPerSounding, jac, jacobian, nFops,
                    dataVals, nInits >>

(***************************************************************************)
(* LCModelling.createJacobian                                              *)
(***************************************************************************)
createJacobian(par) ==
    /\ cls = "LCModelling"
    /\ IF ~ReshapeFits(par, nSoundings, parPerSounding)
       THEN /\ calls' = << >>
            /\ lastOp' = Op("createJacobian", TRUE, Len(par))
       ELSE LET acc == SoundingLoop([calls |-> << >>, resp |-> << >>,
                                     raised |-> FALSE], 0, par)
            IN  /\ calls' = acc.calls
                /\ lastOp' = Op("createJacobian", acc.raised, Len(par))
    /\ ret' = None
    /\ UNCHANGED << cls, nBlocks, regionProperties, rm, fop, data, transModel,
                    mesh, multiThreadJacobian, nCalls, log, fops1D, fops1DAttr,
                    nSoundings, parPerSounding, jac, jacobian, nFops,
                    dataVals, nInits >>

(***************************************************************************)
(* A Modelling or Block1DModelling object: the cache and the region        *)
(* manager.                                                                *)
(***************************************************************************)
Init ==
    /\ cls \in {"Modelling", "Block1DModelling"}
    /\ InitModelling
    /\ InitLC

Next ==
    \/ \E m \in Meshes, ign \in BOOLEAN :
           nCalls < MaxCalls /\ setMesh(m, ign) /\ UNCHANGED << log, lcVars >>
    \/ nCalls < MaxCalls /\ clearRegionProperties /\ UNCHANGED << log, lcVars >>
    \/ \E region \in Regions, a \in KeywordArgs :
           /\ nCalls < MaxCalls
           /\ setRegionProperties(region, a)
           /\ UNCHANGED << log, lcVars >>
    \/ applyRegionProperties /\ UNCHANGED << log, lcVars >>
    \/ regionManager /\ UNCHANGED << log, lcVars >>
    \/ \E h \in BOOLEAN : getTransModel(h) /\ UNCHANGED << log, lcVars >>
    \/ \E nLayers \in 0 .. MaxLayers :
           nCalls < MaxCalls /\ setLayers(nLayers) /\ UNCHANGED << log, lcVars >>

Spec == Init /\ [][Next]_vars

(***************************************************************************)
(* A Modelling object whose cache calls are recorded in the history.       *)
(***************************************************************************)
InitCache ==
    /\ cls = "Modelling"
    /\ InitModelling
    /\ InitLC

LogEntry(name, region, a) == [op |-> name, region |-> region, args |-> a]

NextCache ==
    \/ /\ Len(log) < MaxLog
       /\ clearRegionProperties
       /\ log' = Append(log, LogEntry("clearRegionProperties", 0, NoArgs))
       /\ UNCHANGED lcVars
    \/ \E region \in Regions, a \in KeywordArgs :
           /\ Len(log) < MaxLog
           /\ setRegionProperties(region, a)
           /\ log' = Append(log, LogEntry("setRegionProperties", region, a))
           /\ UNCHANGED lcVars

SpecCache == InitCache /\ [][NextCache]_vars

(***************************************************************************)
(* A Modelling or Block1DModelling object: the setters and the methods     *)
(* left to the derived classes.                                            *)
(***************************************************************************)
NextAbstract ==
    \/ \E f \in Fops :
           nCalls < MaxCalls /\ setForwardOperator(f) /\ UNCHANGED << log, lcVars >>
    \/ \E tm \in TransModels :
           nCalls < MaxCalls /\ setTransModel(tm) /\ UNCHANGED << log, lcVars >>
    \/ \E d \in DataContainers :
           nCalls < MaxCalls /\ setDataContainer(d) /\ UNCHANGED << log, lcVars >>
    \/ \E region \in Regions, a \in KeywordArgs :
           /\ nCalls < MaxCalls
           /\ setRegionProperties(region, a)
           /\ UNCHANGED << log, lcVars >>
    \/ createStartModel /\ UNCHANGED << log, lcVars >>
    \/ estimateError /\ UNCHANGED << log, lcVars >>
    \/ drawModel /\ UNCHANGED << log, lcVars >>
    \/ drawData /\ UNCHANGED << log, lcVars >>
    \/ Block1DDrawModel /\ UNCHANGED << log, lcVars >>

SpecAbstract == Init /\ [][NextAbstract]_vars

(***************************************************************************)
(* An LCModelling object: the parametrisation and the block matrix.        *)
(***************************************************************************)
InitLCModelling ==
    /\ cls = "LCModelling"
    /\ InitModelling
    /\ InitLC

NextLC ==
    \/ \E n \in 0 .. MaxSoundings, nLayers \in 1 .. MaxLayers, nPar \in {1, 2} :
           createParametrization(n, nLayers, nPar)
    \/ \E dv \in DataValsArgs, nLayers \in 1 .. MaxLayers : initJacobian(dv, nLayers)

SpecLC == InitLCModelling /\ [][NextLC]_vars

(***************************************************************************)
(* An LCModelling object: the parametrisation and the calls that hand a    *)
(* model vector to the per-sounding operators.  Every sounding has one     *)
(* data value.                                                             *)
(***************************************************************************)
OneDatumArgs == {[i \in 1 .. n |-> << 0 >>] : n \in 0 .. MaxSoundings}

NextResponse ==
    \/ \E n \in 0 .. MaxSoundings, nLayers \in 1 .. MaxLayers, nPar \in {1, 2} :
           createParametrization(n, nLayers, nPar)
    \/ \E dv \in OneDatumArgs, nLayers \in 1 .. MaxLayers : initJacobian(dv, nLayers)
    \/ \E par \in ParArgs : response(par)
    \/ \E par \in ParArgs : createJacobian(par)

SpecResponse == InitLCModelling /\ [][NextResponse]_vars

(***************************************************************************)
(*                         Properties                                      *)
(***************************************************************************)
Fields == {"startModel", "limits", "trans", "cType", "zWeights", "modelControl"}

\* The value the history gives field f of region r: the argument of the
\* latest setRegionProperties(r, ...) since the last clearRegionProperties
\* that passed f, or the default.
RECURSIVE LastWritten(_, _, _, _)
LastWritten(h, k, r, f) ==
    IF k = 0 THEN DefaultProperties[f]
    ELSE IF h[k].op = "clearRegionProperties" THEN DefaultProperties[f]
    ELSE IF h[k].region = r /\ ~IsNone(h[k].args[f]) THEN Get(h[k].args[f])
    ELSE LastWritten(h, k - 1, r, f)

\* The regions for which setRegionProperties ran since the last clear.
RECURSIVE RegionsSet(_, _)
RegionsSet(h, k) ==
    IF k = 0 THEN {}
    ELSE IF h[k].op = "clearRegionProperties" THEN {}
    ELSE {h[k].region} \cup RegionsSet(h, k - 1)

\* C1: last write wins per field.  The mapping holds exactly the regions
\* set since the last clearRegionProperties, and each field of each record
\* holds the latest non-None argument written for it since then, or its
\* default; so a call for one region changes no other region's record and a
\* None argument changes nothing.
C1_LastWriteWins ==
    /\ DOMAIN regionProperties = RegionsSet(log, Len(log))
    /\ \A r \in DOMAIN regionProperties : \A f \in Fields :
           regionProperties[r][f] = LastWritten(log, Len(log), r, f)

\* C1 witness: startModel of region 0 written twice, then a call that
\* passes trans only and leaves startModel None.
C1_Witness ==
    /\ Len(log) = 3
    /\ log[1] = LogEntry("setRegionProperties", 0,
                         [NoArgs EXCEPT !.startModel = Some(3)])
    /\ log[2] = LogEntry("setRegionProperties", 0,
                         [NoArgs EXCEPT !.startModel = Some(7)])
    /\ log[3] = LogEntry("setRegionProperties", 0,
                         [NoArgs EXCEPT !.trans = Some("log")])
    /\ regionProperties[0].startModel = 7
    /\ regionProperties[0].trans = "log"

\* The cached record of region r is in the region manager: every setting
\* but the bounds equals the cached value, and a positive bound does too.
Applied(RM, props, r) ==
    /\ RM[r].startModel = props[r].startModel
    /\ RM[r].trans = props[r].trans
    /\ RM[r].cType = props[r].cType
    /\ RM[r].zWeight = props[r].zWeights
    /\ RM[r].modelControl = props[r].modelControl
    /\ (props[r].limits[1] > 0 => RM[r].lowerBound = props[r].limits[1])
    /\ (props[r].limits[2] > 0 => RM[r].upperBound = props[r].limits[2])

ApplyingOps == {"regionManager", "transModel.getter", "_applyRegionProperties",
                "setLayers"}

\* C2: the cache is applied lazily.  setRegionProperties and
\* clearRegionProperties leave the region manager as it is; a region's
\* settings change to anything but a fresh region's only in regionManager(),
\* the transModel getter, _applyRegionProperties or setLayers; and after
\* regionManager() every cached record is in the region manager.
C2_LazyApplication ==
    [][/\ lastOp'.op \in {"setRegionProperties", "clearRegionProperties"}
            => rm' = rm
       /\ (\E r \in Regions : rm'[r] # rm[r] /\ rm'[r] # FreshRegion)
            => lastOp'.op \in ApplyingOps
       /\ lastOp'.op = "regionManager"
            => \A r \in DOMAIN regionProperties' :
                   Applied(rm', regionProperties', r)]_vars

\* C2 witness: a record written to the cache reached the region manager
\* through regionManager().
C2_Witness ==
    /\ lastOp.op = "regionManager"
    /\ 0 \in DOMAIN regionProperties
    /\ regionProperties[0].startModel = 3
    /\ regionProperties[0].limits = << 2, 5 >>
    /\ rm[0].startModel = 3
    /\ rm[0].lowerBound = 2

\* C3, as claimed: after regionManager() every hint the region manager
\* holds for a cached region, the two bounds included, equals the cached
\* value.
C3_ManagerEqualsCache ==
    lastOp.op = "regionManager" =>
        \A r \in DOMAIN regionProperties :
            /\ rm[r].startModel = regionProperties[r].startModel
            /\ rm[r].lowerBound = regionProperties[r].limits[1]
            /\ rm[r].upperBound = regionProperties[r].limits[2]
            /\ rm[r].trans = regionProperties[r].trans
            /\ rm[r].cType = regionProperties[r].cType
            /\ rm[r].zWeight = regionProperties[r].zWeights
            /\ rm[r].modelControl = regionProperties[r].modelControl

RECURSIVE SumLens(_, _)
SumLens(dv, k) == IF k = 0 THEN 0 ELSE SumLens(dv, k - 1) + Len(dv[k])

\* C4: after initJacobian(dataVals, nLayers) the block matrix holds one
\* entry per sounding; entry i starts at the row that is the sum of the
\* lengths of the soundings before it and at column i * parPerSounding,
\* with parPerSounding = 2 * nLayers - 1; the row ranges are pairwise
\* disjoint, the column ranges are pairwise disjoint, and the column ranges
\* cover nSoundings * parPerSounding columns.
C4_BlockOffsets ==
    lastOp.op = "initJacobian" =>
        LET J == Get(jac)
            n == Len(dataVals)
            P == 2 * lastOp.arg - 1
            Rows(i) == {J.entries[i].row + k : k \in 0 .. Len(dataVals[i]) - 1}
            Cols(i) == {J.entries[i].col + k : k \in 0 .. P - 1}
        IN  /\ parPerSounding = P
            /\ nSoundings = n
            /\ Len(J.entries) = n
            /\ \A i \in 1 .. n :
                   /\ J.entries[i].row = SumLens(dataVals, i - 1)
                   /\ J.entries[i].col = (i - 1) * P
            /\ \A i, j \in 1 .. n :
                   i # j => Rows(i) \cap Rows(j) = {} /\ Cols(i) \cap Cols(j) = {}
            /\ UNION {Cols(i) : i \in 1 .. n} = 0 .. n * P - 1

\* C4 witness: a second initJacobian, with two soundings of two and one
\* data values and two layers, on a block matrix that held entries.
C4_Witness ==
    /\ lastOp.op = "initJacobian"
    /\ lastOp.arg = 2
    /\ Len(dataVals) = 2
    /\ Len(dataVals[1]) = 2
    /\ Len(dataVals[2]) = 1
    /\ nFops > 2
    /\ Get(jac).entries[2] = [mat |-> 1, row |-> 2, col |-> 3]

\* C5, as claimed: after initJacobian the list of per-sounding operators
\* has _nSoundings elements, and the operator used for sounding i is the
\* one whose Jacobian is block i of the block matrix.
C5_OperatorsMatchBlocks ==
    lastOp.op = "initJacobian" =>
        /\ Len(fops1D) = nSoundings
        /\ \A i \in 1 .. nSoundings :
               fops1D[i] = Get(jac).matrices[Get(jac).entries[i].mat + 1]

\* What C7 says of a response or createJacobian call whose par has
\* lastOp.arg elements, par[k] = k.
C7_Chunks ==
    LET n == nSoundings
        P == parPerSounding
        par == [k \in 1 .. lastOp.arg |-> k]
        Chunk(i) == [j \in 1 .. P |-> par[(i - 1) * P + j]]
    IN  /\ ~lastOp.raised
        /\ Len(calls) = n
        /\ \A i \in 1 .. n : calls[i] = [fop |-> fops1D[i], mod |-> Chunk(i)]
        /\ lastOp.op = "response" =>
               /\ ~IsNone(ret)
               /\ Len(Get(ret)) = 2 * n
               /\ \A i \in 1 .. n : \A d \in 1 .. 2 :
                      Get(ret)[2 * (i - 1) + d] = FopResponse(fops1D[i], Chunk(i))[d]
        /\ \A k \in 1 .. Len(par) :
               Cardinality({ij \in (1 .. n) \X (1 .. P) :
                               calls[ij[1]].mod[ij[2]] = par[k]}) = 1

\* C7, as claimed: whenever len(par) = _nSoundings * _parPerSounding,
\* response and createJacobian hand chunk i of par to operator i, once and
\* in order, and response returns the results concatenated.
C7_AsClaimed ==
    (lastOp.op \in {"response", "createJacobian"}
        /\ lastOp.arg = nSoundings * parPerSounding) => C7_Chunks

\* C7, amended: the same, when _parPerSounding is not negative and the
\* list of operators holds at least _nSoundings operators.
C7_ChunksToOperators ==
    (lastOp.op \in {"response", "createJacobian"}
        /\ lastOp.arg = nSoundings * parPerSounding
        /\ parPerSounding >= 0
        /\ Len(fops1D) >= nSoundings) => C7_Chunks

\* C7 witness: response on two soundings of three parameters each.
C7_Witness ==
    /\ lastOp.op = "response"
    /\ ~lastOp.raised
    /\ nSoundings = 2
    /\ parPerSounding = 3
    /\ calls[2].mod = << 4, 5, 6 >>

RaisingOps == {"createStartModel", "estimateError", "drawModel", "drawData"}

\* C6: Modelling.createStartModel, estimateError, drawModel and drawData
\* end in an exception and leave the region-property mapping, fop, data
\* and the transformation as they were.
C6_AbstractMethodsRaise ==
    [][lastOp'.op \in RaisingOps =>
           /\ lastOp'.raised
           /\ regionProperties' = regionProperties
           /\ fop' = fop
           /\ data' = data
           /\ transModel' = transModel]_vars

\* C6 witness: estimateError raised on an object that has a forward
\* operator and a cached region record.
C6_Witness ==
    /\ lastOp.op = "estimateError"
    /\ lastOp.raised
    /\ ~IsNone(fop)
    /\ 1 \in DOMAIN regionProperties

\* C8: setLayers(nLayers) with nLayers < 2 raises and changes neither the
\* mesh, the cache, the multi-thread count nor the region manager; with
\* nLayers >= 2 it returns with a cached record for every region
\* 0 .. nBlocks whose trans is 'log' and whose other fields are the earlier
\* ones or the defaults, the other records as they were, the multi-thread
\* count at 2 * nLayers - 1 and every cached record in the region manager.
C8_SetLayers ==
    [][lastOp'.op = "setLayers" =>
           IF lastOp'.arg < 2
           THEN /\ lastOp'.raised
                /\ mesh' = mesh
                /\ regionProperties' = regionProperties
                /\ multiThreadJacobian' = multiThreadJacobian
                /\ rm' = rm
           ELSE /\ ~lastOp'.raised
                /\ DOMAIN regionProperties' =
                       DOMAIN regionProperties \cup (0 .. nBlocks)
                /\ \A r \in 0 .. nBlocks :
                       /\ regionProperties'[r].trans = "log"
                       /\ \A f \in Fields \ {"trans"} :
                              regionProperties'[r][f] =
                                  IF r \in DOMAIN regionProperties
                                  THEN regionProperties[r][f]
                                  ELSE DefaultProperties[f]
                /\ \A r \in DOMAIN regionProperties \ (0 .. nBlocks) :
                       regionProperties'[r] = regionProperties[r]
                /\ multiThreadJacobian' = 2 * lastOp'.arg - 1
                /\ \A r \in DOMAIN regionProperties' :
                       Applied(rm', regionProperties', r)]_vars

\* C8 witness: setLayers(1) raised on an object whose cache and region
\* manager hold a record.
C8_Witness ==
    /\ lastOp.op = "setLayers"
    /\ lastOp.arg = 1
    /\ lastOp.raised
    /\ 0 \in DOMAIN regionProperties
    /\ rm[0].startModel = 7

\* C9: _applyRegionProperties gives every cached region the cached start
\* model, transformation, constraint type, z-weight and model control, the
\* lower bound if and only if limits[0] > 0 and the upper bound if and only
\* if limits[1] > 0, a bound that is not set staying as it was; it changes
\* no region that is not cached; and applying it once more changes nothing.
C9_ApplyFrame ==
    [][lastOp'.op = "_applyRegionProperties" =>
           /\ \A r \in Regions :
                  IF r \in DOMAIN regionProperties
                  THEN LET vals == regionProperties[r]
                       IN  rm'[r] =
                               [startModel |-> vals.startModel,
                                trans |-> vals.trans,
                                cType |-> vals.cType,
                                zWeight |-> vals.zWeights,
                                modelControl |-> vals.modelControl,
                                lowerBound |-> IF vals.limits[1] > 0
                                               THEN vals.limits[1]
                                               ELSE rm[r].lowerBound,
                                upperBound |-> IF vals.limits[2] > 0
                                               THEN vals.limits[2]
                                               ELSE rm[r].upperBound]
                  ELSE rm'[r] = rm[r]
           /\ ApplyRegionProperties(rm', regionProperties') = rm']_vars

\* C9 witness: limits [0, 4] applied to a region whose bounds were 2 and 5:
\* the lower bound stays, the upper bound is set.
C9_Witness ==
    /\ lastOp.op = "_applyRegionProperties"
    /\ 0 \in DOMAIN regionProperties
    /\ regionProperties[0].limits = << 0, 4 >>
    /\ rm[0].lowerBound = 2
    /\ rm[0].upperBound = 4
    /\ 1 \notin DOMAIN regionProperties

====
